---- MODULE Spec2Model ----
(***************************************************************************)
(* Model of the Rembrandt MAP RAG backend: rag_service.prepare_chunks,     *)
(* ChromaService (lazy initialisation, upsert, search, clear, count,       *)
(* is_ready) and the FastAPI handlers of routes/documents.py and           *)
(* routes/health.py.                                                       *)
(*                                                                         *)
(* Python str values are sequences of one-character strings, so that       *)
(* strip, split, join and the f-string of _chunk_id are computed and not   *)
(* assumed.  Python None is the one-element sequence <<"None">>, which is  *)
(* no text over the alphabet.                                              *)
(***************************************************************************)
EXTENDS Integers, Sequences, FiniteSets, Bags, TLC

VARIABLES client, collection, db, reachable, resp, pc, inits, used

vars == <<client, collection, db, reachable, resp, pc, inits, used>>

None == <<"None">>

(* ---------------------------------------------------------------------- *)
(* config.py                                                               *)
(* ---------------------------------------------------------------------- *)

\* settings.chunk_size / settings.chunk_overlap.  The defaults are 512 and
\* 64; both are overridable (REMBRANDT_CHUNK_SIZE, REMBRANDT_CHUNK_OVERLAP)
\* and the model runs the configuration 4 / 1 so that contents of a few
\* characters already split.
chunk_size == 4

chunk_overlap == 1

(* ---------------------------------------------------------------------- *)
(* Python str helpers                                                      *)
(* ---------------------------------------------------------------------- *)

\* the characters str.strip() removes, among those of the model's alphabet
Whitespace == {" ", "\n"}

RECURSIVE lstrip(_)
lstrip(s) ==
    IF s = <<>> THEN s
    ELSE IF Head(s) \in Whitespace THEN lstrip(Tail(s)) ELSE s

RECURSIVE rstrip(_)
rstrip(s) ==
    IF s = <<>> THEN s
    ELSE IF s[Len(s)] \in Whitespace THEN rstrip(SubSeq(s, 1, Len(s) - 1)) ELSE s

\* str.strip()
strip(s) == rstrip(lstrip(s))

\* sep.join(parts)
RECURSIVE join(_, _)
join(parts, sep) ==
    IF parts = <<>> THEN <<>>
    ELSE IF Len(parts) = 1 THEN parts[1]
    ELSE parts[1] \o sep \o join(Tail(parts), sep)

Digit == <<"0", "1", "2", "3", "4", "5", "6", "7", "8", "9">>

\* str(idx) of the f-string, idx >= 0
RECURSIVE str(_)
str(n) == IF n < 10 THEN <<Digit[n + 1]>> ELSE str(n \div 10) \o <<Digit[(n % 10) + 1]>>

\* whether sep occurs in text at position i
IsAt(text, sep, i) ==
    /\ i + Len(sep) - 1 <= Len(text)
    /\ SubSeq(text, i, i + Len(sep) - 1) = sep

\* re.search(re.escape(sep), text), sep non-empty
Contains(text, sep) == \E i \in 1..Len(text) : IsAt(text, sep, i)

FirstAt(text, sep) ==
    CHOOSE i \in 1..Len(text) :
        IsAt(text, sep, i) /\ \A j \in 1..(i - 1) : ~IsAt(text, sep, j)

\* re.split(sep, text): the pieces between the leftmost non-overlapping
\* occurrences of sep
RECURSIVE re_split(_, _)
re_split(text, sep) ==
    IF ~Contains(text, sep) THEN <<text>>
    ELSE LET i == FirstAt(text, sep)
         IN  <<SubSeq(text, 1, i - 1)>>
                 \o re_split(SubSeq(text, i + Len(sep), Len(text)), sep)

(* ---------------------------------------------------------------------- *)
(* RecursiveCharacterTextSplitter(chunk_size, chunk_overlap, separators),  *)
(* as rag_service.prepare_chunks constructs and calls it                   *)
(* (keep_separator = True, strip_whitespace = True, length_function = len) *)
(* ---------------------------------------------------------------------- *)

\* "u3002" is the one character U+3002 (ideographic full stop)
separators ==
    << <<"\n", "\n">>, <<"\n">>, <<"u3002">>, <<".", " ">>, <<" ">>, <<>> >>

\* _split_text_with_regex(text, separator, keep_separator=True): the
\* separator stays at the start of the piece that follows it; empty pieces
\* are dropped.  The empty separator gives list(text).
split_text_with_regex(text, sep) ==
    IF sep = <<>> THEN [i \in 1..Len(text) |-> <<text[i]>>]
    ELSE LET p == re_split(text, sep)
             q == [i \in 1..Len(p) |-> IF i = 1 THEN p[1] ELSE sep \o p[i]]
         IN  SelectSeq(q, LAMBDA s : s # <<>>)

\* _join_docs: separator.join(docs).strip(); <<>> stands for its None
join_docs(docs, sep) == strip(join(docs, sep))

\* the inner while loop of _merge_splits: drop pieces from the front of
\* current_doc until the overlap fits
RECURSIVE pop_front(_, _, _, _)
pop_front(cur, total, len, sep) ==
    IF \/ total > chunk_overlap
       \/ /\ total + len + (IF Len(cur) > 0 THEN Len(sep) ELSE 0) > chunk_size
          /\ total > 0
    THEN pop_front(Tail(cur),
                   total - (Len(cur[1]) + (IF Len(cur) > 1 THEN Len(sep) ELSE 0)),
                   len, sep)
    ELSE [cur |-> cur, total |-> total]

\* the for loop of _merge_splits from piece i on
RECURSIVE merge_from(_, _, _, _, _, _)
merge_from(splits, i, sep, docs, cur, total) ==
    IF i > Len(splits)
    THEN LET doc == join_docs(cur, sep)
         IN  IF doc # <<>> THEN Append(docs, doc) ELSE docs
    ELSE LET d == splits[i]
             len == Len(d)
             over == total + len + (IF Len(cur) > 0 THEN Len(sep) ELSE 0) > chunk_size
             emit == over /\ Len(cur) > 0
             doc == join_docs(cur, sep)
             docs1 == IF emit /\ doc # <<>> THEN Append(docs, doc) ELSE docs
             p == IF emit THEN pop_front(cur, total, len, sep)
                  ELSE [cur |-> cur, total |-> total]
             cur2 == Append(p.cur, d)
         IN  merge_from(splits, i + 1, sep, docs1, cur2,
                        p.total + len + (IF Len(cur2) > 1 THEN Len(sep) ELSE 0))

merge_splits(splits, sep) == merge_from(splits, 1, sep, <<>>, <<>>, 0)

\* the first separator of seps that is empty or occurs in text (the last
\* one when there is none)
sep_index(text, seps) ==
    IF \E i \in 1..Len(seps) : seps[i] = <<>> \/ Contains(text, seps[i])
    THEN CHOOSE i \in 1..Len(seps) :
            /\ seps[i] = <<>> \/ Contains(text, seps[i])
            /\ \A j \in 1..(i - 1) : ~(seps[j] = <<>> \/ Contains(text, seps[j]))
    ELSE Len(seps)

RECURSIVE split_text_rec(_, _)
RECURSIVE split_loop(_, _, _, _, _)

\* the loop of _split_text over the pieces, from piece i on; final is
\* final_chunks and good is _good_splits.  Pieces are merged with the
\* separator "" because keep_separator is True.
split_loop(splits, i, new_separators, final, good) ==
    IF i > Len(splits)
    THEN IF good # <<>> THEN final \o merge_splits(good, <<>>) ELSE final
    ELSE LET s == splits[i]
         IN  IF Len(s) < chunk_size
             THEN split_loop(splits, i + 1, new_separators, final, Append(good, s))
             ELSE LET f1 == IF good # <<>> THEN final \o merge_splits(good, <<>>)
                            ELSE final
                      f2 == IF new_separators = <<>> THEN Append(f1, s)
                            ELSE f1 \o split_text_rec(s, new_separators)
                  IN  split_loop(splits, i + 1, new_separators, f2, <<>>)

\* RecursiveCharacterTextSplitter._split_text(text, separators)
split_text_rec(text, seps) ==
    LET k == sep_index(text, seps)
        found == seps[k] = <<>> \/ Contains(text, seps[k])
        separator == seps[k]
        new_separators ==
            IF found /\ separator # <<>> THEN SubSeq(seps, k + 1, Len(seps)) ELSE <<>>
    IN  split_loop(split_text_with_regex(text, separator), 1, new_separators,
                   <<>>, <<>>)

\* a splitter that hands the text back as one piece
split_text_unsplit(text) == <<text>>

\* splitter.split_text(content)
split_text(text) == split_text_rec(text, separators)

(* ---------------------------------------------------------------------- *)
(* rag_service.py                                                          *)
(* ---------------------------------------------------------------------- *)

\* hashlib.md5(raw).hexdigest().  The digest is kept as the tagged input:
\* the model takes MD5 to be free of collisions on the inputs it meets, so
\* two IDs are equal exactly when the hashed strings are.
md5(raw) == <<"md5">> \o raw

\* _chunk_id(doc_id, section_id, idx): md5 of f"{doc_id}::{section_id}::{idx}"
chunk_id(doc_id, section_id, idx) ==
    md5(doc_id \o <<":", ":">> \o section_id \o <<":", ":">> \o str(idx))

\* Python truthiness of an Optional[str]
Truthy(x) == x # None /\ x # <<>>

\* the chunks of one document: d.get("content").strip(), skipped when
\* empty, else one dict per piece of splitter.split_text(content)
chunks_of(d) ==
    LET content == strip(d.content)
        section_id == IF Truthy(d.section_id) THEN d.section_id ELSE d.doc_id
        sub_chunks == split_text(content)
    IN  IF content = <<>> THEN <<>>
        ELSE [i \in 1..Len(sub_chunks) |->
                [id |-> chunk_id(d.doc_id, section_id, i - 1),
                 content |-> sub_chunks[i],
                 doc_id |-> d.doc_id,
                 filename |-> d.filename,
                 section_id |-> section_id,
                 heading |-> IF Truthy(d.heading) THEN d.heading ELSE <<>>,
                 speaker |-> d.speaker,
                 tags |-> join(d.tags, <<",">>)]]

\* prepare_chunks appending each document's chunks in front of the list
\* instead of behind it
RECURSIVE prepare_chunks_prepending(_)
prepare_chunks_prepending(documents) ==
    IF documents = <<>> THEN <<>>
    ELSE prepare_chunks_prepending(Tail(documents)) \o chunks_of(Head(documents))

\* prepare_chunks(documents): the chunks of each document, in input order
RECURSIVE prepare_chunks(_)
prepare_chunks(documents) ==
    IF documents = <<>> THEN <<>>
    ELSE chunks_of(Head(documents)) \o prepare_chunks(Tail(documents))

(* ---------------------------------------------------------------------- *)
(* The persistent store (chromadb.PersistentClient at                      *)
(* settings.chroma_persist_path) as ChromaService calls it.  db.exists     *)
(* says whether the collection settings.collection_name exists; db.rows    *)
(* is the bag of its entries [id, document, metadata].                     *)
(* ---------------------------------------------------------------------- *)

NoCollection == [exists |-> FALSE, rows |-> EmptyBag]

\* a call that makes a new, empty collection whether or not one exists
create_collection_anew(d) == [exists |-> TRUE, rows |-> EmptyBag]

\* client.get_or_create_collection(name=settings.collection_name, ...)
get_or_create_collection(d) ==
    IF d.exists THEN d ELSE [exists |-> TRUE, rows |-> EmptyBag]

\* ids, documents, metadatas of add_chunks, one entry per chunk
entry(c) ==
    [id |-> c.id,
     document |-> c.content,
     metadata |-> [doc_id |-> c.doc_id, filename |-> c.filename,
                   section_id |-> c.section_id, heading |-> c.heading,
                   speaker |-> c.speaker, tags |-> c.tags]]

entries(chunks) == {entry(chunks[i]) : i \in 1..Len(chunks)}

\* chromadb rejects a batch that names an ID twice (DuplicateIDError)
ids_unique(chunks) ==
    \A i, j \in 1..Len(chunks) : chunks[i].id = chunks[j].id => i = j

\* collection.add semantics without the replacement by id
add_rows(rows, chunks) == rows (+) SetToBag(entries(chunks))

\* a write that first removes every entry of the sections in the batch
replace_sections(rows, chunks) ==
    LET keys == {<<chunks[i].doc_id, chunks[i].section_id>> : i \in 1..Len(chunks)}
        kept == {r \in BagToSet(rows) :
                    <<r.metadata.doc_id, r.metadata.section_id>> \notin keys}
    IN  [r \in kept |-> rows[r]] (+) SetToBag(entries(chunks))

\* collection.upsert(ids, documents, metadatas): entries whose id is in the
\* batch are replaced, the others are added
upsert(rows, chunks) ==
    LET ids == {chunks[i].id : i \in 1..Len(chunks)}
        kept == {r \in BagToSet(rows) : r.id \notin ids}
    IN  [r \in kept |-> rows[r]] (+) SetToBag(entries(chunks))

\* collection.count()
count_rows(rows) == BagCardinality(rows)

(* ---------------------------------------------------------------------- *)
(* chroma_service.py: ChromaService.  A service state s is                 *)
(* [client, collection, db, inits]: self._client and self._collection (0   *)
(* is None, k > 0 the handle of the k-th client this process built), the   *)
(* store, and the number of PersistentClient constructions so far.  Each   *)
(* method gives [st, err, ret]: the state it leaves, whether it raised,    *)
(* and its return value.  up says whether the store is reachable.          *)
(* ---------------------------------------------------------------------- *)

Ok(s, ret) == [st |-> s, err |-> FALSE, ret |-> ret]

Raise(s) == [st |-> s, err |-> TRUE, ret |-> None]

\* _ensure_ready: returns at once when self._client is set; else builds the
\* client (which raises, leaving _client None, when the store cannot be
\* opened), the embedding function and the collection
ensure_ready(s, up) ==
    IF s.client # 0 THEN Ok(s, None)
    ELSE IF ~up THEN Raise(s)
    ELSE Ok([client |-> s.inits + 1,
             collection |-> s.inits + 1,
             db |-> get_or_create_collection(s.db),
             inits |-> s.inits + 1], None)

\* add_chunks without its "if not chunks: return": the store is opened and
\* written even for an empty list, which chromadb rejects
add_chunks_no_guard(s, chunks, up) ==
    LET e == ensure_ready(s, up)
    IN  IF e.err THEN e
        ELSE IF e.st.collection = 0 THEN Raise(e.st)
        ELSE IF ~up \/ ~e.st.db.exists \/ ~ids_unique(chunks) \/ chunks = <<>>
             THEN Raise(e.st)
        ELSE Ok([e.st EXCEPT !.db.rows = upsert(e.st.db.rows, chunks)], None)

\* add_chunks
add_chunks(s, chunks, up) ==
    IF chunks = <<>> THEN Ok(s, None)
    ELSE LET e == ensure_ready(s, up)
         IN  IF e.err THEN e
             ELSE IF e.st.collection = 0 THEN Raise(e.st)
             ELSE IF ~up \/ ~e.st.db.exists \/ ~ids_unique(chunks) THEN Raise(e.st)
             ELSE Ok([e.st EXCEPT !.db.rows = upsert(e.st.db.rows, chunks)], None)

\* The cosine distance the store reports between the embeddings of the
\* query and of a stored document, in whole units of the range [0, 2].  The
\* embedding function is a deterministic collaborator; the model fixes one:
\* 0 for the same text, 1 for texts sharing a character, 2 otherwise.
distance(query, document) ==
    IF query = document THEN 0
    ELSE IF \E i \in 1..Len(query), j \in 1..Len(document) : query[i] = document[j]
         THEN 1
         ELSE 2

\* collection.query(query_texts=[query], n_results=n, include=[...]): the n
\* entries nearest to the query, nearest first
nearest(rows, query, n) ==
    LET R == BagToSet(rows)
        m == IF n < Cardinality(R) THEN n ELSE Cardinality(R)
    IN  CHOOSE f \in [1..m -> R] :
            /\ \A i, j \in 1..m : f[i] = f[j] => i = j
            /\ \A i, j \in 1..m :
                 i < j => distance(query, f[i].document) <= distance(query, f[j].document)
            /\ \A r \in R \ {f[i] : i \in 1..m} :
                 \A i \in 1..m : distance(query, f[i].document) <= distance(query, r.document)

\* number of steps in which the model measures one unit of distance
Resolution == 50

\* score = 1.0 - (dist / 2.0) for a distance of dist steps, kept as the
\* fraction <<numerator, denominator>>
score_of(dist) == <<2 * Resolution - dist, 2 * Resolution>>

\* one dict of search's result list: {"content": doc, "score": score, **meta}
hit(query, r) ==
    [content |-> r.document,
     score |-> score_of(Resolution * distance(query, r.document)),
     doc_id |-> r.metadata.doc_id,
     filename |-> r.metadata.filename,
     section_id |-> r.metadata.section_id,
     heading |-> r.metadata.heading,
     speaker |-> r.metadata.speaker,
     tags |-> r.metadata.tags]

\* search
search(s, query, n_results, up) ==
    LET e == ensure_ready(s, up)
    IN  IF e.err THEN e
        ELSE IF e.st.collection = 0 THEN Raise(e.st)
        ELSE IF ~up \/ ~e.st.db.exists THEN Raise(e.st)
        ELSE LET count == count_rows(e.st.db.rows)
                 n == IF n_results < count THEN n_results ELSE count
             IN  IF count = 0 THEN Ok(e.st, <<>>)
                 ELSE IF n <= 0 THEN Raise(e.st)
                 ELSE LET res == nearest(e.st.db.rows, query, n)
                      IN  Ok(e.st, [i \in 1..Len(res) |-> hit(query, res[i])])

\* clear
clear(s, up) ==
    LET e == ensure_ready(s, up)
    IN  IF e.err THEN e
        ELSE IF e.st.client = 0 THEN Raise(e.st)
        ELSE IF ~up \/ ~e.st.db.exists THEN Raise(e.st)
        ELSE Ok([e.st EXCEPT !.db = NoCollection, !.collection = 0], None)

\* a count that empties the collection it has counted
count_emptying(s, up) ==
    LET e == ensure_ready(s, up)
    IN  IF e.err THEN e
        ELSE IF e.st.collection = 0 THEN Raise(e.st)
        ELSE IF ~up \/ ~e.st.db.exists THEN Raise(e.st)
        ELSE Ok([e.st EXCEPT !.db.rows = EmptyBag], count_rows(e.st.db.rows))

\* count
count(s, up) ==
    LET e == ensure_ready(s, up)
    IN  IF e.err THEN e
        ELSE IF e.st.collection = 0 THEN Raise(e.st)
        ELSE IF ~up \/ ~e.st.db.exists THEN Raise(e.st)
        ELSE Ok(e.st, count_rows(e.st.db.rows))

\* unique_doc_count
unique_doc_count(s, up) ==
    LET e == ensure_ready(s, up)
    IN  IF e.err THEN e
        ELSE IF e.st.collection = 0 THEN Raise(e.st)
        ELSE IF ~up \/ ~e.st.db.exists THEN Raise(e.st)
        ELSE IF count_rows(e.st.db.rows) = 0 THEN Ok(e.st, 0)
        ELSE Ok(e.st, Cardinality({r.metadata.doc_id : r \in BagToSet(e.st.db.rows)}))

\* is_ready without its try/except
is_ready_unguarded(s, up) ==
    LET e == ensure_ready(s, up)
    IN  IF e.err THEN e ELSE Ok(e.st, e.st.collection # 0)

\* is_ready: any exception of _ensure_ready is caught and gives False
is_ready(s, up) ==
    LET e == ensure_ready(s, up)
    IN  IF e.err THEN Ok(e.st, FALSE) ELSE Ok(e.st, e.st.collection # 0)

(* ---------------------------------------------------------------------- *)
(* Requests                                                                *)
(* ---------------------------------------------------------------------- *)

\* longest IndexRequest.documents list
MaxBatch == 2

\* largest SearchRequest.top_k
MaxLimit == 3

\* DocumentChunk payloads: a section without section_id and heading; a
\* section of the same document whose section_id equals the doc_id and
\* whose content splits in two; a blank section; and a section "b"/"s" in
\* a long and in a short revision
Sections ==
    << [doc_id |-> <<"a">>, filename |-> <<"f">>, section_id |-> None,
        heading |-> None, speaker |-> <<"p">>,
        content |-> <<"a", "b">>, tags |-> <<>>],
       [doc_id |-> <<"a">>, filename |-> <<"f">>, section_id |-> <<"a">>,
        heading |-> <<"h">>, speaker |-> <<"p">>,
        content |-> <<"a", "b", " ", "c", "d">>, tags |-> << <<"x">>, <<"y">> >>],
       [doc_id |-> <<"b">>, filename |-> <<"g">>, section_id |-> <<"s">>,
        heading |-> <<>>, speaker |-> <<"p">>,
        content |-> <<" ", "\n">>, tags |-> <<>>],
       [doc_id |-> <<"b">>, filename |-> <<"g">>, section_id |-> <<"s">>,
        heading |-> <<"h">>, speaker |-> <<"p">>,
        content |-> <<" ", "a", "b", "c", "d", "e", "f">>, tags |-> << <<"x">> >>],
       [doc_id |-> <<"b">>, filename |-> <<"g">>, section_id |-> <<"s">>,
        heading |-> <<"h">>, speaker |-> <<"p">>,
        content |-> <<"a", "b">>, tags |-> << <<"x">> >>] >>

\* an IndexRequest names its sections by their position in Sections
Batches == UNION {[1..n -> 1..Len(Sections)] : n \in 0..MaxBatch}

\* IndexRequest.documents of a batch
documents_of(batch) == [i \in 1..Len(batch) |-> Sections[batch[i]]]

\* prepare_chunks(request.documents) of every request of the model, as a
\* table <<batch, chunks>> that is computed once
PreparedTable == {<<batch, prepare_chunks(documents_of(batch))>> : batch \in Batches}

PreparedChunks(batch) == (CHOOSE p \in PreparedTable : p[1] = batch)[2]

Queries == {<<"a", "b">>, <<"z">>}

Limits == 0..MaxLimit

(* ---------------------------------------------------------------------- *)
(* routes/documents.py and routes/health.py.  A handler has no await       *)
(* between its entry and its return, so the event loop runs each request   *)
(* to its end before the next: one action per request.  resp is the        *)
(* response last sent: the endpoint, the HTTP status, the request and the  *)
(* body, with two history fields: again, whether the request repeats the   *)
(* one answered 200 just before, and pre, the number of entries stored     *)
(* when the request arrived.                                               *)
(* ---------------------------------------------------------------------- *)

Service == [client |-> client, collection |-> collection, db |-> db, inits |-> inits]

Commit(r) ==
    /\ client' = r.st.client
    /\ collection' = r.st.collection
    /\ db' = r.st.db
    /\ inits' = r.st.inits

\* the response of a handler: its body, or HTTPException(status_code=500)
\* when the try block raised
Response(op, req, err, body, again) ==
    [op |-> op, status |-> IF err THEN 500 ELSE 200, req |-> req,
     body |-> IF err THEN <<>> ELSE body, again |-> again,
     pre |-> count_rows(db.rows)]

NoResponse ==
    [op |-> "none", status |-> 0, req |-> <<>>, body |-> <<>>, again |-> FALSE,
     pre |-> 0]

\* POST /docs/index answering the number of sections received instead of
\* the number of chunks written
index_documents_counts_sections(batch) ==
    LET chunks == PreparedChunks(batch)
        r == add_chunks(Service, chunks, reachable)
    IN  /\ Commit(r)
        /\ resp' = Response("index", batch, r.err, [indexed |-> Len(batch)],
                            resp.op = "index" /\ resp.status = 200
                                /\ resp.req = batch)
        /\ UNCHANGED <<reachable, pc, used>>

\* POST /docs/index
index_documents(batch) ==
    LET chunks == PreparedChunks(batch)
        r == add_chunks(Service, chunks, reachable)
    IN  /\ Commit(r)
        /\ resp' = Response("index", batch, r.err, [indexed |-> Len(chunks)],
                            resp.op = "index" /\ resp.status = 200
                                /\ resp.req = batch)
        /\ UNCHANGED <<reachable, pc, used>>

\* DELETE /docs/clear
clear_documents ==
    LET r == clear(Service, reachable)
    IN  /\ Commit(r)
        /\ resp' = Response("clear", <<>>, r.err, [cleared |-> TRUE],
                            resp.op = "clear" /\ resp.status = 200)
        /\ UNCHANGED <<reachable, pc, used>>

\* str.split(","), then the comprehension's filter "if t"
split_tags(tags) == SelectSeq(re_split(tags, <<",">>), LAMBDA t : t # <<>>)

\* SearchResult(...) built from one dict of chroma_service.search
SearchResult(r) ==
    [doc_id |-> r.doc_id,
     filename |-> r.filename,
     section_id |-> r.section_id,
     heading |-> IF Truthy(r.heading) THEN r.heading ELSE None,
     speaker |-> r.speaker,
     content |-> r.content,
     score |-> r.score,
     tags |-> split_tags(r.tags)]

\* POST /docs/search answering an empty result list when the search raised
search_documents_swallowing(query, top_k) ==
    LET r == search(Service, query, top_k, reachable)
        results == IF r.err THEN <<>>
                   ELSE [i \in 1..Len(r.ret) |-> SearchResult(r.ret[i])]
    IN  /\ Commit(r)
        /\ resp' = Response("search", [query |-> query, top_k |-> top_k], FALSE,
                            [results |-> results, query |-> query], FALSE)
        /\ UNCHANGED <<reachable, pc, used>>

\* POST /docs/search
search_documents(query, top_k) ==
    LET r == search(Service, query, top_k, reachable)
        results == IF r.err THEN <<>>
                   ELSE [i \in 1..Len(r.ret) |-> SearchResult(r.ret[i])]
    IN  /\ Commit(r)
        /\ resp' = Response("search", [query |-> query, top_k |-> top_k], r.err,
                            [results |-> results, query |-> query], FALSE)
        /\ UNCHANGED <<reachable, pc, used>>

\* GET /docs/stats: unique_doc_count(), then count()
get_stats ==
    LET u == unique_doc_count(Service, reachable)
        c == IF u.err THEN u ELSE count(u.st, reachable)
    IN  /\ Commit(c)
        /\ resp' = Response("stats", <<>>, c.err,
                            [doc_count |-> u.ret, chunk_count |-> c.ret], FALSE)
        /\ UNCHANGED <<reachable, pc, used>>

\* GET /health: no try block; an exception of is_ready would leave the
\* handler and be answered 500
health_check ==
    LET r == is_ready(Service, reachable)
    IN  /\ Commit(r)
        /\ resp' = Response("health", <<>>, r.err, [chroma_ready |-> r.ret], FALSE)
        /\ UNCHANGED <<reachable, pc, used>>

(* ---------------------------------------------------------------------- *)
(* Environment                                                             *)
(* ---------------------------------------------------------------------- *)

\* the persistent index can no longer be opened, read or written
StoreFails ==
    /\ reachable
    /\ reachable' = FALSE
    /\ UNCHANGED <<client, collection, db, resp, pc, inits, used>>

StoreRecovers ==
    /\ ~reachable
    /\ reachable' = TRUE
    /\ UNCHANGED <<client, collection, db, resp, pc, inits, used>>

\* the process ends and a new one starts: a new ChromaService() with
\* _client = _collection = None over the same persist path
Restart ==
    /\ client' = 0
    /\ collection' = 0
    /\ inits' = 0
    /\ resp' = NoResponse
    /\ UNCHANGED <<db, reachable, pc, used>>

\* number of threads that call into the service
NThreads == 2

Threads == 1..NThreads

Init ==
    /\ client = 0
    /\ collection = 0
    /\ db = NoCollection
    /\ reachable = TRUE
    /\ resp = NoResponse
    /\ pc = [t \in Threads |-> "idle"]
    /\ inits = 0
    /\ used = [t \in Threads |-> <<0, 0>>]

Next ==
    \/ \E batch \in Batches : index_documents(batch)
    \/ \E query \in Queries, top_k \in Limits : search_documents(query, top_k)
    \/ clear_documents
    \/ get_stats
    \/ health_check
    \/ StoreFails
    \/ StoreRecovers
    \/ Restart

Spec == Init /\ [][Next]_vars

(* ---------------------------------------------------------------------- *)
(* ChromaService called from several threads (the class documents itself   *)
(* as a thread-safe singleton): count() run by each thread, one step per   *)
(* read or write of self._client / self._collection.  pc[t] is the         *)
(* position of thread t, used[t] the <<client, collection>> handles its    *)
(* call ended up with.                                                     *)
(* ---------------------------------------------------------------------- *)

Goto(t, label) == pc' = [pc EXCEPT ![t] = label]

\* a thread calls count(), which calls _ensure_ready()
ThreadCall(t) ==
    /\ pc[t] = "idle"
    /\ Goto(t, "check")
    /\ UNCHANGED <<client, collection, db, reachable, resp, inits, used>>

\* _ensure_ready: if self._client is not None: return
ThreadCheck(t) ==
    /\ pc[t] = "check"
    /\ Goto(t, IF client # 0 THEN "use" ELSE "client")
    /\ UNCHANGED <<client, collection, db, reachable, resp, inits, used>>

\* _ensure_ready: self._client = chromadb.PersistentClient(path=...)
ThreadMakeClient(t) ==
    /\ pc[t] = "client"
    /\ IF reachable
       THEN /\ client' = inits + 1
            /\ inits' = inits + 1
            /\ Goto(t, "collection")
       ELSE /\ Goto(t, "raised")
            /\ UNCHANGED <<client, inits>>
    /\ UNCHANGED <<collection, db, reachable, resp, used>>

\* _ensure_ready: self._collection = self._client.get_or_create_collection(...)
ThreadMakeCollection(t) ==
    /\ pc[t] = "collection"
    /\ IF reachable
       THEN /\ collection' = client
            /\ db' = get_or_create_collection(db)
            /\ Goto(t, "use")
       ELSE /\ Goto(t, "raised")
            /\ UNCHANGED <<collection, db>>
    /\ UNCHANGED <<client, reachable, resp, inits, used>>

\* count: assert self._collection is not None; self._collection.count()
ThreadUse(t) ==
    /\ pc[t] = "use"
    /\ IF collection = 0
       THEN /\ Goto(t, "assert_failed")
            /\ UNCHANGED used
       ELSE IF reachable
       THEN /\ used' = [used EXCEPT ![t] = <<client, collection>>]
            /\ Goto(t, "done")
       ELSE /\ Goto(t, "raised")
            /\ UNCHANGED used
    /\ UNCHANGED <<client, collection, db, reachable, resp, inits>>

NextThreads ==
    \/ \E t \in Threads : ThreadCall(t)
    \/ \E t \in Threads : ThreadCheck(t)
    \/ \E t \in Threads : ThreadMakeClient(t)
    \/ \E t \in Threads : ThreadMakeCollection(t)
    \/ \E t \in Threads : ThreadUse(t)
    \/ StoreFails
    \/ StoreRecovers

SpecThreads == Init /\ [][NextThreads]_vars

(* ---------------------------------------------------------------------- *)
(* search() and clear() of the one ChromaService run by several threads,   *)
(* with the store reachable.  The steps are those between which another    *)
(* thread can run: _ensure_ready, then each read of self._collection with  *)
(* the store call made on it.  Here used[t] is <<h, n>>: the handle        *)
(* self._collection held when the _ensure_ready of t's search returned,    *)
(* and the local variable count of that search.  The store is filled by    *)
(* requests answered before the threads start.                             *)
(* ---------------------------------------------------------------------- *)

\* a request served while no thread is inside the service
IndexBeforeThreads(batch) ==
    /\ \A t \in Threads : pc[t] = "idle"
    /\ index_documents(batch)

\* search: self._ensure_ready()
SearchEnsureReady(t) ==
    /\ pc[t] = "idle"
    /\ LET e == ensure_ready(Service, reachable)
       IN  /\ Commit(e)
           /\ Goto(t, IF e.err THEN "raised" ELSE "s_assert")
           /\ used' = [used EXCEPT ![t] = <<e.st.collection, 0>>]
    /\ UNCHANGED <<reachable, resp>>

\* search: assert self._collection is not None
SearchAssert(t) ==
    /\ pc[t] = "s_assert"
    /\ Goto(t, IF collection = 0 THEN "s_failed" ELSE "s_count")
    /\ UNCHANGED <<client, collection, db, reachable, resp, inits, used>>

\* search: count = self._collection.count(); if count == 0: return [].
\* The attribute is read again: None has no count(), and the store rejects
\* a count on a collection that was deleted.
SearchCount(t) ==
    /\ pc[t] = "s_count"
    /\ IF collection = 0 \/ ~db.exists
       THEN /\ Goto(t, "s_failed")
            /\ UNCHANGED used
       ELSE IF count_rows(db.rows) = 0
       THEN /\ Goto(t, "done")
            /\ UNCHANGED used
       ELSE /\ Goto(t, "s_query")
            /\ used' = [used EXCEPT ![t][2] = count_rows(db.rows)]
    /\ UNCHANGED <<client, collection, db, reachable, resp, inits>>

\* search: n_results = min(n_results, count); self._collection.query(...)
\* and the result list built from it.  The store rejects n_results <= 0
\* and a query on a collection that was deleted.
SearchQuery(t, n_results) ==
    /\ pc[t] = "s_query"
    /\ LET n == IF n_results < used[t][2] THEN n_results ELSE used[t][2]
       IN  Goto(t, IF collection = 0 \/ ~db.exists THEN "s_failed"
                   ELSE IF n <= 0 THEN "rejected"
                   ELSE "done")
    /\ UNCHANGED <<client, collection, db, reachable, resp, inits, used>>

\* clear: self._ensure_ready(); assert self._client is not None
ClearEnsureReady(t) ==
    /\ pc[t] = "idle"
    /\ LET e == ensure_ready(Service, reachable)
       IN  /\ Commit(e)
           /\ Goto(t, IF e.err THEN "raised"
                      ELSE IF e.st.client = 0 THEN "c_failed"
                      ELSE "c_delete")
    /\ UNCHANGED <<reachable, resp, used>>

\* clear: self._client.delete_collection(settings.collection_name)
ClearDelete(t) ==
    /\ pc[t] = "c_delete"
    /\ IF db.exists
       THEN /\ db' = NoCollection
            /\ Goto(t, "c_reset")
       ELSE /\ Goto(t, "c_failed")
            /\ UNCHANGED db
    /\ UNCHANGED <<client, collection, reachable, resp, inits, used>>

\* clear: self._collection = None
ClearReset(t) ==
    /\ pc[t] = "c_reset"
    /\ collection' = 0
    /\ Goto(t, "done")
    /\ UNCHANGED <<client, db, reachable, resp, inits, used>>

NextRace ==
    \/ \E batch \in Batches : IndexBeforeThreads(batch)
    \/ \E t \in Threads : SearchEnsureReady(t)
    \/ \E t \in Threads : SearchAssert(t)
    \/ \E t \in Threads : SearchCount(t)
    \/ \E t \in Threads, n_results \in Limits : SearchQuery(t, n_results)
    \/ \E t \in Threads : ClearEnsureReady(t)
    \/ \E t \in Threads : ClearDelete(t)
    \/ \E t \in Threads : ClearReset(t)

SpecRace == Init /\ [][NextRace]_vars

(* ---------------------------------------------------------------------- *)
(* The functions of rag_service.py on their own.  A run starts with the    *)
(* arguments of one call in resp.req (op "input") and its one step puts    *)
(* the value the function returns in resp.body.                            *)
(* ---------------------------------------------------------------------- *)

\* the state before a call whose arguments are drawn from inputs
InitCall(inputs) ==
    /\ client = 0
    /\ collection = 0
    /\ db = NoCollection
    /\ reachable = TRUE
    /\ resp \in {[NoResponse EXCEPT !.op = "input", !.req = i] : i \in inputs}
    /\ pc = [t \in Threads |-> "idle"]
    /\ inits = 0
    /\ used = [t \in Threads |-> <<0, 0>>]

\* the call returns ret
Return(name, ret) ==
    /\ resp.op = "input"
    /\ resp' = [resp EXCEPT !.op = name, !.body = ret]
    /\ UNCHANGED <<client, collection, db, reachable, pc, inits, used>>

\* largest chunk index handed to _chunk_id
MaxIdx == 1

\* doc_id and section_id values: DocumentChunk.doc_id and section_id are
\* unconstrained str
Ids == {<<"a">>, <<"b">>, <<"a", ":", ":", "b">>, <<"b", ":", ":", "b">>}

\* (doc_id, section_id, idx)
Triples == Ids \X Ids \X (0..MaxIdx)

\* _chunk_id evaluated on two triples
CallChunkId ==
    Return("chunk_id", <<chunk_id(resp.req[1][1], resp.req[1][2], resp.req[1][3]),
                         chunk_id(resp.req[2][1], resp.req[2][2], resp.req[2][3])>>)

SpecChunkId == InitCall(Triples \X Triples) /\ [][CallChunkId]_vars

\* longest documents list handed to prepare_chunks on its own
MaxDocs == 3

\* documents lists, each section named by its position in Sections
DocumentLists == UNION {[1..n -> 1..Len(Sections)] : n \in 0..MaxDocs}

\* prepare_chunks(documents)
CallPrepareChunks == Return("prepare_chunks", prepare_chunks(documents_of(resp.req)))

SpecPrepareChunks == InitCall(DocumentLists) /\ [][CallPrepareChunks]_vars

(* ---------------------------------------------------------------------- *)
(* The tags of a section on their way through the index: joined by         *)
(* prepare_chunks, kept by the store as the metadata string, split again   *)
(* by search_documents.  resp.req is the submitted list.                   *)
(* ---------------------------------------------------------------------- *)

\* longest DocumentChunk.tags list
MaxTags == 3

\* tags: list[str], any str
TagValues == {<<"x">>, <<"y">>, <<"x", ",", "y">>, <<>>}

TagLists == UNION {[1..n -> TagValues] : n \in 0..MaxTags}

\* prepare_chunks: "tags": ",".join(d.get("tags", []))
StoreTags ==
    /\ resp.op = "input"
    /\ resp' = [resp EXCEPT !.op = "stored",
                            !.body = [tags |-> join(resp.req, <<",">>)]]
    /\ UNCHANGED <<client, collection, db, reachable, pc, inits, used>>

\* search_documents: tags=[t for t in r.get("tags", "").split(",") if t]
ReturnTags ==
    /\ resp.op = "stored"
    /\ resp' = [resp EXCEPT !.op = "returned",
                            !.body = [tags |-> resp.body.tags,
                                      result |-> split_tags(resp.body.tags)]]
    /\ UNCHANGED <<client, collection, db, reachable, pc, inits, used>>

NextTags == StoreTags \/ ReturnTags

SpecTags == InitCall(TagLists) /\ [][NextTags]_vars

(* ---------------------------------------------------------------------- *)
(* The score of search on its own.  The collection is created with         *)
(* "hnsw:space": "cosine": the store reports 1 - <u, v> for the normalised *)
(* single-precision embeddings u and v, a value of [0, 2] up to the        *)
(* rounding of that arithmetic, which can fall a step outside the range    *)
(* (below 0 for equal texts).                                              *)
(* ---------------------------------------------------------------------- *)

\* the distances res["distances"][0] can hold, in steps
ReportedDistances == (0 - 1)..(2 * Resolution + 1)

\* score = 1.0 - (dist / 2.0)
CallScore == Return("score", score_of(resp.req))

SpecScore == InitCall(ReportedDistances) /\ [][CallScore]_vars

\* longest DocumentChunk.content handed to prepare_chunks on its own
MaxContent == 5

\* characters of a content: a letter, the whitespace and the full stop the
\* separators are made of
Alphabet == {"a", " ", "\n", "."}

Contents == UNION {[1..n -> Alphabet] : n \in 0..MaxContent}

\* prepare_chunks of one section with the given content, for every content
\* of the model, as a table <<content, chunks>> that is computed once
SplitTable ==
    {<<content, prepare_chunks(<<[Sections[1] EXCEPT !.content = content]>>)>> :
        content \in Contents}

\* prepare_chunks of one section with the content resp.req
CallSplitContent ==
    Return("split", (CHOOSE p \in SplitTable : p[1] = resp.req)[2])

\* a call that has started runs until it returns
SpecSplit ==
    InitCall(Contents) /\ [][CallSplitContent]_vars /\ WF_vars(CallSplitContent)

(* ---------------------------------------------------------------------- *)
(* Properties                                                              *)
(* ---------------------------------------------------------------------- *)

Min(a, b) == IF a < b THEN a ELSE b

\* every section of the batch has empty or whitespace-only content
AllBlank(batch) == \A i \in 1..Len(batch) : strip(Sections[batch[i]].content) = <<>>

\* no stored entry occurs twice and no two entries share an id
NoDuplicates(rows) ==
    /\ \A r \in BagToSet(rows) : rows[r] = 1
    /\ \A r1, r2 \in BagToSet(rows) : r1.id = r2.id => r1 = r2

\* the step is a POST /docs/index (of the batch resp'.req)
IndexStep == resp'.op = "index" /\ index_documents(resp'.req)

\* the step is a POST /docs/search (of the request resp'.req)
SearchStep ==
    resp'.op = "search" /\ search_documents(resp'.req.query, resp'.req.top_k)

\* C1: when the request just answered 200 was POST /docs/index of a batch,
\* indexing the same batch again leaves the store (the entries and their
\* number, which is what Stats counts) as it was, with no entry duplicated.
C1_IdempotentUpsert ==
    [][(resp.op = "index" /\ resp.status = 200 /\ IndexStep /\ resp'.req = resp.req)
         => /\ db' = db
            /\ count_rows(db'.rows) = count_rows(db.rows)
            /\ NoDuplicates(db'.rows)]_vars

\* C1 witness: a non-empty batch was indexed twice in a row, both answered 200
C1_Witness ==
    /\ resp.op = "index" /\ resp.status = 200 /\ resp.again
    /\ resp.body.indexed >= 2
    /\ count_rows(db.rows) > resp.body.indexed

\* C2: after a Clear answered 200, with the store reachable, the next
\* request succeeds against a fresh empty collection: Stats reports
\* chunk_count 0, Search returns no results, Index of a batch with chunks
\* stores them.
C2_ClearThenLazyRecreate ==
    [][(resp.op = "clear" /\ resp.status = 200 /\ reachable)
         => /\ get_stats => (resp'.status = 200 /\ resp'.body.chunk_count = 0)
            /\ SearchStep => (resp'.status = 200 /\ resp'.body.results = <<>>)
            /\ (IndexStep /\ PreparedChunks(resp'.req) # <<>>
                  /\ ids_unique(PreparedChunks(resp'.req)))
                 => /\ resp'.status = 200
                    /\ BagToSet(db'.rows) = entries(PreparedChunks(resp'.req))]_vars

\* C3: with the store reachable, DELETE /docs/clear answers 200 with
\* cleared = true when the collection does not exist, when it exists and
\* holds no entry, and when the request before it was a Clear answered 200.
C3_ClearAlwaysSucceeds ==
    [][(clear_documents /\ reachable
          /\ (\/ ~db.exists
              \/ count_rows(db.rows) = 0
              \/ (resp.op = "clear" /\ resp.status = 200)))
         => (resp'.status = 200 /\ resp'.body.cleared)]_vars

\* C4: GET /health is always answered 200, and when _ensure_ready raises
\* (the store cannot be opened) its chroma_ready is false.
C4_HealthNeverRaises ==
    [][health_check
         => /\ resp'.status = 200
            /\ ensure_ready(Service, reachable).err
                 => resp'.body.chroma_ready = FALSE]_vars

\* C4 witness: a health probe was answered while the store could not be opened
C4_Witness ==
    /\ resp.op = "health" /\ resp.status = 200
    /\ resp.body.chroma_ready = FALSE
    /\ ~reachable /\ client = 0

\* C5: under concurrent first use the initialisation of _ensure_ready runs
\* once, no racing call fails while the store is reachable, and all calls
\* end up with the same client and collection handle.
C5_InitialisedOnce ==
    /\ inits <= 1
    /\ \A t \in Threads : pc[t] # "assert_failed"
    /\ \A t, u \in Threads :
         (pc[t] = "done" /\ pc[u] = "done") => used[t] = used[u]

\* C6: with the store reachable, a search of a collection holding no entry
\* is answered 200 with results [] and the query echoed, for every query
\* and every top_k >= 0.
C6_EmptySearchIsSafe ==
    [][(SearchStep /\ reachable /\ count_rows(db.rows) = 0)
         => /\ resp'.status = 200
            /\ resp'.body.results = <<>>
            /\ resp'.body.query = resp'.req.query]_vars

\* C7: with the store reachable, every search is answered 200 with exactly
\* min(top_k, number of stored entries) results.
C7_SearchLength ==
    [][(SearchStep /\ reachable)
         => /\ resp'.status = 200
            /\ Len(resp'.body.results) = Min(resp'.req.top_k, count_rows(db.rows))]_vars

\* C8: with the store reachable, POST /docs/index is answered 200 for every
\* batch, in every state.
C8_IndexAlwaysSucceeds ==
    [][(IndexStep /\ reachable) => resp'.status = 200]_vars

\* C9: after an Index answered 200 that found the collection empty, the
\* number of stored entries equals the indexed count of the response, and a
\* Stats answered 200 next reports that number as chunk_count.
C9_IndexedCountIsWritten ==
    [][(resp.op = "index" /\ resp.status = 200 /\ resp.pre = 0)
         => /\ count_rows(db.rows) = resp.body.indexed
            /\ (get_stats /\ resp'.status = 200)
                 => resp'.body.chunk_count = resp.body.indexed]_vars

\* C9 witness: an Index into an empty collection wrote several chunks
C9_Witness ==
    /\ resp.op = "index" /\ resp.status = 200 /\ resp.pre = 0
    /\ resp.body.indexed >= 3
    /\ Len(resp.req) < resp.body.indexed

\* C10: Index of an empty list, or of sections that are all blank, is
\* answered 200 with indexed = 0 in every state (store reachable or not,
\* collection present or not) and leaves the store unchanged.
C10_EmptyInputNoop ==
    [][(IndexStep /\ AllBlank(resp'.req))
         => /\ resp'.status = 200
            /\ resp'.body.indexed = 0
            /\ db' = db]_vars

\* C10 witness: a batch of blank sections was indexed over a non-empty
\* collection while the store was unreachable
C10_Witness ==
    /\ resp.op = "index" /\ resp.status = 200
    /\ resp.req # <<>> /\ AllBlank(resp.req)
    /\ resp.body.indexed = 0
    /\ count_rows(db.rows) > 0
    /\ ~reachable

\* C11: a search that found the collection handle set when its
\* _ensure_ready returned, and so runs while a clear is executing or not
\* yet started, does not fail at any of its later steps: it returns [] or
\* a result list under every interleaving with the steps of clear.
C11_SearchSurvivesClear ==
    [][\A t \in Threads :
         (pc[t] \in {"s_assert", "s_count", "s_query"} /\ used[t][1] # 0)
             => pc'[t] # "s_failed"]_vars

\* C12: two triples (doc_id, section_id, index) get the same chunk ID
\* exactly when they are the same triple.
C12_ChunkIdInjective ==
    resp.op = "chunk_id"
        => (resp.body[1] = resp.body[2] <=> resp.req[1] = resp.req[2])

\* the (doc_id, section_id) pairs of the sections of a batch are pairwise
\* distinct (an absent section_id is the value None)
DistinctPairs(batch) ==
    \A i, j \in 1..Len(batch) :
        i # j => <<Sections[batch[i]].doc_id, Sections[batch[i]].section_id>>
                   # <<Sections[batch[j]].doc_id, Sections[batch[j]].section_id>>

\* C13: for a batch whose (doc_id, section_id) pairs are pairwise distinct,
\* the chunk IDs in the output of prepare_chunks are pairwise distinct.
C13_BatchIdsUnique ==
    (resp.op = "prepare_chunks" /\ DistinctPairs(resp.req)) => ids_unique(resp.body)

\* C14: with the store reachable, after any sequence of Index and Clear
\* requests GET /docs/stats is answered with chunk_count the number of
\* stored entries and doc_count the number of distinct doc_id values among
\* them (0 and 0 for an empty collection).
C14_StatsCounts ==
    [][(get_stats /\ reachable)
         => /\ resp'.status = 200
            /\ resp'.body.chunk_count = count_rows(db.rows)
            /\ resp'.body.doc_count
                 = Cardinality({r.metadata.doc_id : r \in BagToSet(db.rows)})]_vars

\* C15: the tags stored for a section are its tag list joined by commas,
\* the tags of a SearchResult equal the submitted list, and the empty list
\* is stored as "" and comes back as the empty list.
C15_TagRoundTrip ==
    /\ resp.op \in {"stored", "returned"}
         => /\ resp.body.tags = join(resp.req, <<",">>)
            /\ resp.req = <<>> => resp.body.tags = <<>>
    /\ resp.op = "returned"
         => /\ resp.body.result = resp.req
            /\ resp.req = <<>> => resp.body.result = <<>>

\* the pieces prepare_chunks is to emit for section k of Sections: none when
\* its content is empty after trimming
pieces(k) ==
    LET content == strip(Sections[k].content)
    IN  IF content = <<>> THEN <<>> ELSE split_text(content)

\* number of pieces of the sections before position p of the batch
RECURSIVE PiecesBefore(_, _)
PiecesBefore(batch, p) ==
    IF p <= 1 THEN 0
    ELSE PiecesBefore(batch, p - 1) + Len(pieces(batch[p - 1]))

\* C16: prepare_chunks emits nothing for a section that is empty after
\* trimming and, for the other sections, one chunk per piece, in section
\* order and within a section in piece order with index 0, 1, 2, ...; the
\* blank sections do not change what the others give, and equal chunks are
\* not merged.
C16_SkipBlankKeepOrder ==
    resp.op = "prepare_chunks"
        => LET batch == resp.req
               out == resp.body
           IN  /\ Len(out) = PiecesBefore(batch, Len(batch) + 1)
               /\ \A p \in 1..Len(batch) : \A i \in 1..Len(pieces(batch[p])) :
                    LET c == out[PiecesBefore(batch, p) + i]
                        d == Sections[batch[p]]
                    IN  /\ c.content = pieces(batch[p])[i]
                        /\ c.doc_id = d.doc_id
                        /\ c.filename = d.filename
                        /\ c.id = chunk_id(d.doc_id, c.section_id, i - 1)
               /\ out = prepare_chunks(documents_of(
                            SelectSeq(batch, LAMBDA k : pieces(k) # <<>>)))

\* C16 witness: a batch with a blank section between a section of another
\* document and a section that splits in two
C16_Witness ==
    /\ resp.op = "prepare_chunks"
    /\ Len(resp.req) = 3
    /\ pieces(resp.req[1]) # <<>> /\ pieces(resp.req[2]) = <<>>
    /\ Len(pieces(resp.req[3])) = 2
    /\ Len(resp.body) = 3
    /\ resp.body[1].doc_id # resp.body[3].doc_id

\* the store entries each section of Sections gives when it is indexed, as
\* a table <<k, entries>>
SectionEntries == {<<k, entries(chunks_of(Sections[k]))>> : k \in 1..Len(Sections)}

\* the sections a stored entry r can have been indexed from
SectionsOf(r) == {p[1] : p \in {q \in SectionEntries : r \in q[2]}}

\* C17: in every search answered 200, a result for a chunk of a section
\* that was indexed without section_id carries section_id null, and one
\* for a chunk of a section indexed without heading carries heading null.
C17_AbsentFieldsAreNull ==
    [][(SearchStep /\ resp'.status = 200)
         => \A n \in 1..Len(resp'.body.results) : \A r \in BagToSet(db.rows) :
              resp'.body.results[n] = SearchResult(hit(resp'.req.query, r))
                => \A k \in SectionsOf(r) :
                     /\ Sections[k].section_id = None
                          => resp'.body.results[n].section_id = None
                     /\ Sections[k].heading = None
                          => resp'.body.results[n].heading = None]_vars

C19_SplitCorrect ==
    /\ <>(resp.op = "split")
    /\ [](resp.op = "split"
            => /\ Len(strip(resp.req)) > chunk_size => Len(resp.body) > 1
               /\ (strip(resp.req) # <<>> /\ Len(strip(resp.req)) < chunk_size)
                    => Len(resp.body) = 1
               /\ \A i \in 1..Len(resp.body) : resp.body[i].content # <<>>)

\* C19 witness: a content with blanks inside it, longer than chunk_size
\* after trimming, was split in several chunks
C19_Witness ==
    /\ resp.op = "split"
    /\ Len(strip(resp.req)) > chunk_size
    /\ Contains(resp.req, <<" ">>)
    /\ Len(resp.body) >= 2

\* the request of the step was answered 500 and left the service and the
\* store as they were
FailedOnce ==
    /\ resp'.status = 500
    /\ resp'.body = <<>>
    /\ <<client, collection, db, inits>>' = <<client, collection, db, inits>>

\* C20: while the store is unreachable, an Index that has chunks to write,
\* a Search, a Clear and a Stats are each answered with one 500 and leave
\* no trace of a further attempt; GET /health is answered 200.
C20_StoreFailureIs500 ==
    [][~reachable
         => /\ (IndexStep /\ PreparedChunks(resp'.req) # <<>>) => FailedOnce
            /\ SearchStep => FailedOnce
            /\ clear_documents => FailedOnce
            /\ get_stats => FailedOnce
            /\ health_check => (resp'.status = 200
                                  /\ <<db, inits>>' = <<db, inits>>)]_vars

\* C20 witness: a Stats was answered 500 because the store, in use and
\* holding entries, had become unreachable
C20_Witness ==
    /\ resp.op = "stats" /\ resp.status = 500
    /\ ~reachable
    /\ client # 0 /\ collection # 0
    /\ count_rows(db.rows) > 0

\* C21: a restart leaves the stored entries as they were, and the new
\* process, lazily initialised on the same persist path with the store
\* reachable, finds them: _ensure_ready keeps the collection, Stats reports
\* its entries and a Search with top_k >= 1 returns from them.
C21_SurvivesRestart ==
    [][/\ Restart => db' = db
       /\ (client = 0 /\ reachable /\ db.exists)
            => /\ ensure_ready(Service, reachable).st.db = db
               /\ get_stats
                    => /\ resp'.status = 200
                       /\ resp'.body.chunk_count = count_rows(db.rows)
                       /\ db' = db
               /\ (SearchStep /\ resp'.req.top_k >= 1)
                    => /\ resp'.status = 200
                       /\ Len(resp'.body.results)
                            = Min(resp'.req.top_k, count_rows(db.rows))
                       /\ db' = db]_vars

\* C21 witness: a new process, not yet initialised, over a store that
\* holds the entries written before the restart
C21_Witness ==
    /\ client = 0 /\ collection = 0 /\ inits = 0
    /\ resp = NoResponse
    /\ db.exists /\ count_rows(db.rows) >= 2

\* C22: while the store is reachable, GET /health reports chroma_ready
\* true in every state the requests lead to, also after a Clear.
C22_ReadyWhileReachable ==
    [][(health_check /\ reachable)
         => (resp'.status = 200 /\ resp'.body.chroma_ready = TRUE)]_vars

\* the IDs of the stored entries
stored_ids(rows) == {r.id : r \in BagToSet(rows)}

\* C23: a POST /docs/index removes no stored entry: every ID stored before
\* is stored after, the number of entries does not decrease, and an entry
\* whose ID the batch does not name stays as it was, so the higher-index
\* chunks of a section re-indexed with fewer pieces stay in the store.
C23_IndexNeverRemoves ==
    [][IndexStep
         => /\ count_rows(db'.rows) >= count_rows(db.rows)
            /\ \A r \in BagToSet(db.rows) :
                 /\ r.id \in stored_ids(db'.rows)
                 /\ \/ r \in BagToSet(db'.rows)
                    \/ \E i \in 1..Len(PreparedChunks(resp'.req)) :
                          PreparedChunks(resp'.req)[i].id = r.id]_vars

\* C23 witness: a section was re-indexed with a content that gives one
\* piece, and its old second chunk is still stored beside the new first one
C23_Witness ==
    /\ resp.op = "index" /\ resp.status = 200
    /\ Len(resp.req) = 1 /\ resp.body.indexed = 1
    /\ LET d == Sections[resp.req[1]]
       IN  /\ chunk_id(d.doc_id, d.section_id, 1) \in stored_ids(db.rows)
           /\ \E r \in BagToSet(db.rows) :
                /\ r.id = chunk_id(d.doc_id, d.section_id, 0)
                /\ r.document = strip(d.content)

\* the store after the call is the store before it, or the empty
\* collection _ensure_ready made on first use where there was none
OnlyLazilyCreated(before, after) ==
    \/ after = before
    \/ /\ client = 0 /\ ~before.exists
       /\ after = [exists |-> TRUE, rows |-> EmptyBag]

\* C24: the Search, Stats and health requests, and with them search,
\* unique_doc_count, count and is_ready, leave the stored entries as they
\* were; the only change they make to the store is the empty collection
\* created on first use.
C24_ReadsDoNotWrite ==
    [][(SearchStep \/ get_stats \/ health_check)
         => (db'.rows = db.rows /\ OnlyLazilyCreated(db, db'))]_vars

\* C24 witness: a Search returned several results and the entries stored
\* are those that were stored when it arrived
C24_Witness ==
    /\ resp.op = "search" /\ resp.status = 200
    /\ Len(resp.body.results) >= 2
    /\ count_rows(db.rows) = resp.pre
    /\ resp.pre >= 3

====
